---- MODULE Spec2Model ----
(***************************************************************************)
(* Request handling of lab01/main.go: a Gin (v1.10.0) engine built with    *)
(* gin.Default(), one CORS middleware added with router.Use and five GET   *)
(* routes.  A request is a method, a path (the sequence of its segments,   *)
(* "/user/42/" being <<"user", "42", "">>) and a query (key -> value or    *)
(* Absent).  A connection walks through the engine: handleHTTPRequest      *)
(* (route lookup), then the handler chain one handler per step, then the   *)
(* final write.                                                            *)
(***************************************************************************)
EXTENDS Integers, Sequences, FiniteSets, TLC

VARIABLES conns

vars == <<conns>>

\* Number of connections the server handles at the same time.
MaxInflight == 2

Slots == 1..MaxInflight

----------------------------------------------------------------------------
(* Inputs *)

Methods == {"GET", "OPTIONS", "POST"}

\* Values tried for a path parameter: numeric, non-numeric, blank, a route word.
Ids == {"42", "abc", " ", "posts"}

Paths ==
    {<<"">>, <<"ping">>, <<"health">>, <<"search">>, <<"user">>, <<"nope">>}
      \cup {<<"ping", "">>, <<"health", "">>, <<"search", "">>, <<"ping", "", "">>}
      \cup {<<"user", s>> : s \in Ids \cup {""}}
      \cup {<<"user", s, "posts">> : s \in {"42", "abc", ""}}
      \cup {<<"user", "42", "">>, <<"user", "", "">>, <<"user", "42", "x">>,
            <<"user", "42", "posts", "">>, <<"user", "42", "posts", "x">>}

Absent == "<absent>"

QueryKeys == {"q", "limit", "page", "category", "sort"}

QueryValues(k) ==
    CASE k = "q"        -> {"", "foo"}
      [] k = "limit"    -> {"", "5", "abc"}
      [] k = "page"     -> {"", "2"}
      [] k = "category" -> {"", "tech"}
      [] k = "sort"     -> {"", "name"}

Queries == {f \in [QueryKeys -> {Absent, "", "foo", "5", "abc", "2", "tech", "name"}] :
              \A k \in QueryKeys : f[k] \in QueryValues(k) \cup {Absent}}

NoQuery == [k \in QueryKeys |-> Absent]

Requests == [method : Methods, path : Paths, query : Queries]

\* The requests two or more connections carry at the same time.
CoreRequests ==
    {[method |-> "GET", path |-> <<"ping">>, query |-> NoQuery],
     [method |-> "GET", path |-> <<"ping", "">>, query |-> NoQuery],
     [method |-> "GET", path |-> <<"nope">>, query |-> NoQuery],
     [method |-> "POST", path |-> <<"ping">>, query |-> NoQuery],
     [method |-> "OPTIONS", path |-> <<"search">>, query |-> NoQuery],
     [method |-> "GET", path |-> <<"user", "42">>, query |-> NoQuery],
     [method |-> "GET", path |-> <<"user", "42", "posts">>, query |-> NoQuery],
     [method |-> "GET", path |-> <<"user", "42", "posts">>,
      query |-> [NoQuery EXCEPT !["category"] = "tech", !["sort"] = ""]],
     [method |-> "GET", path |-> <<"search">>, query |-> NoQuery],
     [method |-> "GET", path |-> <<"search">>, query |-> [NoQuery EXCEPT !["q"] = "foo"]],
     [method |-> "GET", path |-> <<"search">>,
      query |-> [NoQuery EXCEPT !["q"] = "foo", !["limit"] = "5", !["page"] = "2"]],
     [method |-> "GET", path |-> <<"search">>,
      query |-> [NoQuery EXCEPT !["q"] = "foo", !["limit"] = ""]]}

----------------------------------------------------------------------------
(* The response writer and the context *)

RECURSIVE PathString(_)
PathString(path) ==
    IF path = <<>> THEN "" ELSE "/" \o Head(path) \o PathString(Tail(path))

NoParams == [k \in {} |-> ""]

Idle == [pc |-> "idle"]

\* engine.ServeHTTP: the context is reset, the writer's status starts at 200.
NewContext(r) ==
    [pc |-> "route", req |-> r, params |-> NoParams, handlers |-> <<>>,
     matched |-> FALSE, index |-> 0, aborted |-> FALSE,
     status |-> 200, written |-> FALSE, headers |-> {}, body |-> <<>>]

\* c.Header(key, value)
Header(c, key, value) ==
    [c EXCEPT !.headers = {h \in c.headers : h[1] # key} \cup {<<key, value>>}]

\* c.Status(code): a status set after the header went out is ignored.
Status(c, code) ==
    [c EXCEPT !.status = IF c.written THEN c.status ELSE code]

WriteHeaderNow(c) == [c EXCEPT !.written = TRUE]

\* c.AbortWithStatus(code)
AbortWithStatus(c, code) ==
    [WriteHeaderNow(Status(c, code)) EXCEPT !.aborted = TRUE]

\* c.JSON(code, obj)
JSON(c, code, obj) ==
    LET s == Status(c, code)
        h == IF \E x \in s.headers : x[1] = "Content-Type" THEN s
             ELSE Header(s, "Content-Type", "application/json; charset=utf-8")
    IN  [WriteHeaderNow(h) EXCEPT !.body = Append(h.body, obj)]

\* c.Param(key)
Param(c, key) == IF key \in DOMAIN c.params THEN c.params[key] ELSE ""

\* c.Query(key)
Query(c, key) == IF c.req.query[key] = Absent THEN "" ELSE c.req.query[key]

\* Variant: an empty value is treated like a missing key.
DefaultQueryOrEmpty(c, key, defaultValue) ==
    IF c.req.query[key] \in {Absent, ""} THEN defaultValue ELSE c.req.query[key]

\* c.DefaultQuery(key, defaultValue)
DefaultQuery(c, key, defaultValue) ==
    IF c.req.query[key] = Absent THEN defaultValue ELSE c.req.query[key]

----------------------------------------------------------------------------
(* Middleware and handlers *)

CorsHeaders ==
    {<<"Access-Control-Allow-Origin", "*">>,
     <<"Access-Control-Allow-Methods", "GET, POST, PUT, DELETE, OPTIONS">>,
     <<"Access-Control-Allow-Headers", "Content-Type, Authorization">>}

\* Variant: the headers are set but a preflight is not answered here.
CorsMiddlewareNoPreflight(c) ==
    Header(Header(Header(c,
        "Access-Control-Allow-Origin", "*"),
        "Access-Control-Allow-Methods", "GET, POST, PUT, DELETE, OPTIONS"),
        "Access-Control-Allow-Headers", "Content-Type, Authorization")

CorsMiddleware(c) ==
    LET h == Header(Header(Header(c,
                 "Access-Control-Allow-Origin", "*"),
                 "Access-Control-Allow-Methods", "GET, POST, PUT, DELETE, OPTIONS"),
                 "Access-Control-Allow-Headers", "Content-Type, Authorization")
    IN  IF c.req.method = "OPTIONS" THEN AbortWithStatus(h, 204) ELSE h

PingResponse == [message |-> "pong", status |-> "healthy"]

HealthResponse == [service |-> "Go API with Gin", status |-> "running", version |-> "1.0.0"]

pingHandler(c) == JSON(c, 200, PingResponse)

healthHandler(c) == JSON(c, 200, HealthResponse)

\* Variant: the id is checked to be the known user.
userHandlerNumericOnly(c) ==
    LET userID == Param(c, "id")
    IN  IF userID = "42"
        THEN JSON(c, 200, [user_id |-> userID, message |-> "User retrieved successfully"])
        ELSE JSON(c, 404, [error |-> "User not found"])

userHandler(c) ==
    LET userID == Param(c, "id")
    IN  JSON(c, 200, [user_id |-> userID, message |-> "User retrieved successfully"])

QRequired == [error |-> "Query parameter 'q' is required"]

\* Variant: the return after the 400 is missing.
searchHandlerNoReturn(c) ==
    LET query == Query(c, "q")
        limit == DefaultQuery(c, "limit", "10")
        page  == DefaultQuery(c, "page", "1")
        ok    == [query |-> query, limit |-> limit, page |-> page, results |-> <<>>]
    IN  IF query = ""
        THEN JSON(JSON(c, 400, QRequired), 200, ok)
        ELSE JSON(c, 200, ok)

\* Variant: a limit that is not a number falls back to the default.
searchHandlerParsedLimit(c) ==
    LET query == Query(c, "q")
        given == DefaultQuery(c, "limit", "10")
        limit == IF given \in {"5", "10"} THEN given ELSE "10"
        page  == DefaultQuery(c, "page", "1")
    IN  IF query = ""
        THEN JSON(c, 400, QRequired)
        ELSE JSON(c, 200, [query |-> query, limit |-> limit, page |-> page, results |-> <<>>])

\* Variant: the missing q is reported as 422.
searchHandlerUnprocessable(c) ==
    LET query == Query(c, "q")
        limit == DefaultQuery(c, "limit", "10")
        page  == DefaultQuery(c, "page", "1")
    IN  IF query = ""
        THEN JSON(c, 422, QRequired)
        ELSE JSON(c, 200, [query |-> query, limit |-> limit, page |-> page, results |-> <<>>])

\* Variant: limit is kept in a variable shared by all requests, so a request
\* sees the limit of another request in flight.
searchHandlerSharedLimit(c) ==
    LET query  == Query(c, "q")
        others == {conns[t].req.query["limit"] :
                      t \in {u \in Slots : conns[u].pc # "idle" /\ conns[u].req # c.req}}
                    \ {Absent}
        limit  == IF others # {} THEN CHOOSE v \in others : TRUE
                  ELSE DefaultQuery(c, "limit", "10")
        page   == DefaultQuery(c, "page", "1")
    IN  IF query = ""
        THEN JSON(c, 400, QRequired)
        ELSE JSON(c, 200, [query |-> query, limit |-> limit, page |-> page, results |-> <<>>])

searchHandler(c) ==
    LET query == Query(c, "q")
        limit == DefaultQuery(c, "limit", "10")
        page  == DefaultQuery(c, "page", "1")
    IN  IF query = ""
        THEN JSON(c, 400, QRequired)
        ELSE JSON(c, 200, [query |-> query, limit |-> limit, page |-> page, results |-> <<>>])

\* Variant: an empty id is rejected.
postsHandlerRequiresId(c) ==
    LET userID   == Param(c, "id")
        category == DefaultQuery(c, "category", "all")
        sort     == DefaultQuery(c, "sort", "date")
    IN  IF userID = ""
        THEN JSON(c, 400, [error |-> "User id is required"])
        ELSE JSON(c, 200, [user_id |-> userID, category |-> category, sort |-> sort,
                           posts |-> <<>>])

postsHandler(c) ==
    LET userID   == Param(c, "id")
        category == DefaultQuery(c, "category", "all")
        sort     == DefaultQuery(c, "sort", "date")
    IN  JSON(c, 200, [user_id |-> userID, category |-> category, sort |-> sort, posts |-> <<>>])

RouteHandlers == {"ping", "health", "user", "search", "posts"}

\* One handler of the chain, by name.
Call(name, c) ==
    CASE name = "Logger"   -> c
      [] name = "Recovery" -> c
      [] name = "CORS"     -> CorsMiddleware(c)
      [] name = "ping"     -> pingHandler(c)
      [] name = "health"   -> healthHandler(c)
      [] name = "user"     -> userHandler(c)
      [] name = "search"   -> searchHandler(c)
      [] name = "posts"    -> postsHandler(c)

\* gin.Default() installs Logger and Recovery; router.Use appends the CORS middleware.
Middleware == <<"Logger", "Recovery", "CORS">>

----------------------------------------------------------------------------
(* Routing *)

NoMatch == [handler |-> "", params |-> NoParams, tsr |-> FALSE]

Found(h, p) == [handler |-> h, params |-> p, tsr |-> FALSE]

Tsr == [handler |-> "", params |-> NoParams, tsr |-> TRUE]

\* Lookup in the GET tree built by the five router.GET registrations.
getValue(path) ==
    LET n == Len(path) IN
    CASE path = <<"ping">>   -> Found("ping", NoParams)
      [] path = <<"health">> -> Found("health", NoParams)
      [] path = <<"search">> -> Found("search", NoParams)
      [] n = 2 /\ path[1] \in {"ping", "health", "search"} /\ path[2] = "" -> Tsr
      [] n = 2 /\ path[1] = "user" /\ path[2] # "" -> Found("user", [id |-> path[2]])
      [] n = 3 /\ path[1] = "user" /\ path[3] = "posts" -> Found("posts", [id |-> path[2]])
      [] n = 3 /\ path[1] = "user" /\ path[3] = "" -> Tsr
      [] n = 4 /\ path[1] = "user" /\ path[3] = "posts" /\ path[4] = "" -> Tsr
      [] OTHER -> NoMatch

\* redirectTrailingSlash: answered by the engine, no handler of the chain runs.
Redirect(c) ==
    LET p == c.req.path
        target == IF p[Len(p)] = "" THEN SubSeq(p, 1, Len(p) - 1) ELSE Append(p, "")
        code == IF c.req.method = "GET" THEN 301 ELSE 307
        h == Header(Header(c, "Location", PathString(target)),
                    "Content-Type", "text/html; charset=utf-8")
    IN  [WriteHeaderNow(Status(h, code)) EXCEPT
             !.body = Append(h.body, [text |-> "Moved Permanently"]), !.pc = "done"]

\* engine.handleHTTPRequest: only GET has a tree; everything else is allNoRoute.
Dispatch(c) ==
    LET v == IF c.req.method = "GET" THEN getValue(c.req.path) ELSE NoMatch IN
    IF v.handler # ""
    THEN [c EXCEPT !.pc = "chain", !.matched = TRUE, !.params = v.params,
                   !.handlers = Append(Middleware, v.handler)]
    ELSE IF v.tsr /\ c.req.path # <<"">>
    THEN Redirect(c)
    ELSE [c EXCEPT !.pc = "chain", !.handlers = Middleware, !.status = 404]

\* After the chain: the matched route flushes the header; serveError writes the 404.
EndOfChain(c) ==
    IF c.matched \/ c.written
    THEN [WriteHeaderNow(c) EXCEPT !.pc = "done"]
    ELSE IF c.status = 404
    THEN [WriteHeaderNow(Header(c, "Content-Type", "text/plain")) EXCEPT
              !.body = Append(c.body, [text |-> "404 page not found"]), !.pc = "done"]
    ELSE [WriteHeaderNow(c) EXCEPT !.pc = "done"]

----------------------------------------------------------------------------
(* Actions *)

Init == conns = [s \in Slots |-> Idle]

Accept(s, r) ==
    /\ conns[s].pc = "idle"
    /\ conns' = [conns EXCEPT ![s] = NewContext(r)]

HandleHTTPRequest(s) ==
    /\ conns[s].pc = "route"
    /\ conns' = [conns EXCEPT ![s] = Dispatch(conns[s])]

\* c.Next(): the next handler of the chain runs.
RunHandler(s) ==
    /\ conns[s].pc = "chain"
    /\ ~conns[s].aborted
    /\ conns[s].index < Len(conns[s].handlers)
    /\ LET c == conns[s]
           i == c.index + 1
       IN  conns' = [conns EXCEPT ![s] = Call(c.handlers[i], [c EXCEPT !.index = i])]

Finish(s) ==
    /\ conns[s].pc = "chain"
    /\ conns[s].aborted \/ conns[s].index = Len(conns[s].handlers)
    /\ conns' = [conns EXCEPT ![s] = EndOfChain(conns[s])]

\* The response has been sent; the slot is free again.
Close(s) ==
    /\ conns[s].pc = "done"
    /\ conns' = [conns EXCEPT ![s] = Idle]

AllIdle == \A t \in Slots : conns[t].pc = "idle"

\* One request at a time, any request.
Next ==
    \/ AllIdle /\ \E s \in Slots, r \in Requests : Accept(s, r)
    \/ \E s \in Slots : HandleHTTPRequest(s)
    \/ \E s \in Slots : RunHandler(s)
    \/ \E s \in Slots : Finish(s)
    \/ \E s \in Slots : Close(s)

Spec == Init /\ [][Next]_vars

\* Requests handled concurrently, interleaved handler by handler.
ConcNext ==
    \/ \E s \in Slots : conns[s].pc = "idle" /\ \E r \in CoreRequests : Accept(s, r)
    \/ \E s \in Slots : HandleHTTPRequest(s)
    \/ \E s \in Slots : RunHandler(s)
    \/ \E s \in Slots : Finish(s)
    \/ \E s \in Slots : Close(s)

ConcSpec == Init /\ [][ConcNext]_vars

----------------------------------------------------------------------------
(* Properties *)

Busy(s) == conns[s].pc # "idle"

Done(s) == conns[s].pc = "done"

\* Slot s carries a GET request for exactly this path.
Get(s, p) == Busy(s) /\ conns[s].req.method = "GET" /\ conns[s].req.path = p

\* Slot s carries a GET request for /user/<x>/posts.
GetPosts(s) ==
    /\ Busy(s) /\ conns[s].req.method = "GET"
    /\ Len(conns[s].req.path) = 3
    /\ conns[s].req.path[1] = "user" /\ conns[s].req.path[3] = "posts"

\* Slot s carries a GET request for /user/<x>, x possibly empty.
GetUser(s) ==
    /\ Busy(s) /\ conns[s].req.method = "GET"
    /\ Len(conns[s].req.path) = 2 /\ conns[s].req.path[1] = "user"

Supplied(s, k) == conns[s].req.query[k]

\* The route handlers that have run so far on a context.
RouteRan(c) == {i \in 1..c.index : c.handlers[i] \in RouteHandlers}

OrDefault(v, d) == IF v = Absent THEN d ELSE v

OrDefaultIfEmpty(v, d) == IF v \in {Absent, ""} THEN d ELSE v

\* C1 as stated: limit, page, category and sort come back as "10", "1", "all",
\* "date" when the parameter is absent and also when it is present but empty,
\* and as the supplied value otherwise.
C1_DefaultWhenAbsentOrEmpty ==
    \A s \in Slots :
        /\ (Done(s) /\ Get(s, <<"search">>) /\ conns[s].status = 200) =>
              /\ conns[s].body[1].limit = OrDefaultIfEmpty(Supplied(s, "limit"), "10")
              /\ conns[s].body[1].page = OrDefaultIfEmpty(Supplied(s, "page"), "1")
        /\ (Done(s) /\ GetPosts(s)) =>
              /\ conns[s].body[1].category = OrDefaultIfEmpty(Supplied(s, "category"), "all")
              /\ conns[s].body[1].sort = OrDefaultIfEmpty(Supplied(s, "sort"), "date")

\* C1 amended: the default string is returned only when the parameter is absent;
\* a parameter present with an empty value comes back as the empty string, and a
\* non-empty one as supplied.
C1_DefaultOnlyWhenAbsent ==
    \A s \in Slots :
        /\ (Done(s) /\ Get(s, <<"search">>) /\ conns[s].status = 200) =>
              /\ conns[s].body[1].limit = OrDefault(Supplied(s, "limit"), "10")
              /\ conns[s].body[1].page = OrDefault(Supplied(s, "page"), "1")
        /\ (Done(s) /\ GetPosts(s)) =>
              /\ conns[s].body[1].category = OrDefault(Supplied(s, "category"), "all")
              /\ conns[s].body[1].sort = OrDefault(Supplied(s, "sort"), "date")

\* GET /search?q=foo&limit= answered, page absent: limit is "", page is "1".
C1_Witness ==
    \E s \in Slots :
        /\ Done(s) /\ Get(s, <<"search">>)
        /\ Supplied(s, "q") = "foo" /\ Supplied(s, "limit") = "" /\ Supplied(s, "page") = Absent
        /\ conns[s].body[1].limit = "" /\ conns[s].body[1].page = "1"

\* C2: a GET /search whose q is absent or empty is answered 400 with exactly the
\* error object, whatever limit and page are; nothing else is ever written to it.
C2_MissingQIs400 ==
    \A s \in Slots :
        (Get(s, <<"search">>) /\ Supplied(s, "q") \in {Absent, ""}) =>
            /\ conns[s].body \in {<<>>, <<QRequired>>}
            /\ Done(s) => (conns[s].status = 400 /\ conns[s].body = <<QRequired>>)

\* GET /search?q=&limit=5&page=2 answered 400.
C2_Witness ==
    \E s \in Slots :
        /\ Done(s) /\ Get(s, <<"search">>)
        /\ Supplied(s, "q") = "" /\ Supplied(s, "limit") = "5" /\ Supplied(s, "page") = "2"
        /\ conns[s].status = 400

\* C3: a GET /search with a non-empty q is answered 200 with one object of the
\* fields query, limit, page, results; query is q, results is empty, and a
\* non-empty limit or page comes back unchanged, numeric or not.
C3_SearchEchoes ==
    \A s \in Slots :
        (Done(s) /\ Get(s, <<"search">>) /\ Supplied(s, "q") \notin {Absent, ""}) =>
            /\ conns[s].status = 200
            /\ Len(conns[s].body) = 1
            /\ DOMAIN conns[s].body[1] = {"query", "limit", "page", "results"}
            /\ conns[s].body[1].query = Supplied(s, "q")
            /\ conns[s].body[1].results = <<>>
            /\ Supplied(s, "limit") \notin {Absent, ""} =>
                   conns[s].body[1].limit = Supplied(s, "limit")
            /\ Supplied(s, "page") \notin {Absent, ""} =>
                   conns[s].body[1].page = Supplied(s, "page")

\* GET /search?q=foo&limit=abc&page=2 answered with limit "abc".
C3_Witness ==
    \E s \in Slots :
        /\ Done(s) /\ Get(s, <<"search">>)
        /\ Supplied(s, "q") = "foo" /\ Supplied(s, "limit") = "abc" /\ Supplied(s, "page") = "2"
        /\ conns[s].body[1].limit = "abc"

\* C4: an OPTIONS request, to any path, never reaches a route handler and ends
\* with status 204, an empty body and the three CORS headers.
C4_PreflightShortCircuits ==
    \A s \in Slots :
        (Busy(s) /\ conns[s].req.method = "OPTIONS") =>
            /\ RouteRan(conns[s]) = {}
            /\ Done(s) => /\ conns[s].status = 204
                          /\ conns[s].body = <<>>
                          /\ CorsHeaders \subseteq conns[s].headers

\* OPTIONS /search without q answered 204.
C4_Witness ==
    \E s \in Slots :
        /\ Done(s) /\ conns[s].req.method = "OPTIONS"
        /\ conns[s].req.path = <<"search">> /\ Supplied(s, "q") = Absent
        /\ conns[s].status = 204

\* C5: every response, whatever the method, path and status, carries the three
\* CORS headers.
C5_EveryResponseHasCors ==
    \A s \in Slots : Done(s) => CorsHeaders \subseteq conns[s].headers

\* C6 as stated: every non-OPTIONS request is answered 200 or 400.
C6_Only200Or400 ==
    \A s \in Slots :
        (Done(s) /\ conns[s].req.method # "OPTIONS") => conns[s].status \in {200, 400}

\* C6 amended: a non-OPTIONS request that matches a registered route is answered
\* 200 or 400; one that matches none is answered 404, or 301 when it is a GET
\* for a registered path with a trailing slash.
C6_RoutedOnly200Or400 ==
    \A s \in Slots :
        (Done(s) /\ conns[s].req.method # "OPTIONS") =>
            IF conns[s].matched
            THEN conns[s].status \in {200, 400}
            ELSE conns[s].status \in {404, 301}

\* GET /user/abc answered by its route handler.
C6_Witness ==
    \E s \in Slots :
        /\ Done(s) /\ Get(s, <<"user", "abc">>)
        /\ conns[s].matched /\ conns[s].status = 200

\* C7 as stated: GET /user/s, for every string s, is answered 200 by the
\* /user/:id handler with user_id s.
C7_AnyIdAccepted ==
    \A s \in Slots :
        (Done(s) /\ GetUser(s)) =>
            /\ conns[s].status = 200
            /\ conns[s].handlers = Append(Middleware, "user")
            /\ conns[s].body = <<[user_id |-> conns[s].req.path[2],
                                  message |-> "User retrieved successfully"]>>

\* C7 amended: GET /user/s, for every non-empty segment s, is answered 200 by the
\* /user/:id handler with user_id s, unchanged.
C7_NonEmptyIdAccepted ==
    \A s \in Slots :
        (Done(s) /\ GetUser(s) /\ conns[s].req.path[2] # "") =>
            /\ conns[s].status = 200
            /\ conns[s].handlers = Append(Middleware, "user")
            /\ conns[s].body = <<[user_id |-> conns[s].req.path[2],
                                  message |-> "User retrieved successfully"]>>

\* GET /user/posts answered by the /user/:id handler with user_id "posts".
C7_Witness ==
    \E s \in Slots :
        /\ Done(s) /\ Get(s, <<"user", "posts">>)
        /\ conns[s].body[1].user_id = "posts"

\* C8: a 400 is only ever the answer to a GET /search whose q is absent or
\* empty; a GET for /ping, /health, /user/:id or /user/:id/posts is answered
\* 200 for any parameters, /ping and /health with their constant objects and
\* /user/:id/posts with posts empty.
C8_Only400IsMissingQ ==
    \A s \in Slots :
        Done(s) =>
            /\ conns[s].status = 400 =>
                   (Get(s, <<"search">>) /\ Supplied(s, "q") \in {Absent, ""})
            /\ Get(s, <<"ping">>) =>
                   (conns[s].status = 200 /\ conns[s].body = <<PingResponse>>)
            /\ Get(s, <<"health">>) =>
                   (conns[s].status = 200 /\ conns[s].body = <<HealthResponse>>)
            /\ (GetUser(s) /\ conns[s].req.path[2] # "") => conns[s].status = 200
            /\ GetPosts(s) =>
                   /\ conns[s].status = 200
                   /\ Len(conns[s].body) = 1
                   /\ conns[s].body[1].posts = <<>>

\* GET /user//posts?category=&sort=name answered 200.
C8_Witness ==
    \E s \in Slots :
        /\ Done(s) /\ Get(s, <<"user", "", "posts">>)
        /\ Supplied(s, "category") = "" /\ Supplied(s, "sort") = "name"
        /\ conns[s].status = 200

\* C9: two answered GET requests with the same method, path and query have the
\* same status, headers and body, whatever else was served before or is in
\* flight.
C9_SameRequestSameResponse ==
    \A s, t \in Slots :
        (Done(s) /\ Done(t) /\ conns[s].req = conns[t].req /\ conns[s].req.method = "GET") =>
            /\ conns[s].status = conns[t].status
            /\ conns[s].headers = conns[t].headers
            /\ conns[s].body = conns[t].body

\* Two connections hold the answer to the same GET /search?q=foo.
C9_Witness ==
    \E s, t \in Slots :
        /\ s # t /\ Done(s) /\ Done(t)
        /\ conns[s].req = conns[t].req
        /\ Get(s, <<"search">>) /\ Supplied(s, "q") = "foo"

\* C10: every request goes through the CORS middleware, then to its route
\* handler, then to the response: the CORS headers are set before a route
\* handler runs, a non-OPTIONS request goes on past the middleware, at most one
\* route handler runs, and exactly one response is written.
C10_PipelineOrder ==
    \A s \in Slots :
        Busy(s) =>
            /\ RouteRan(conns[s]) # {} => CorsHeaders \subseteq conns[s].headers
            /\ Cardinality(RouteRan(conns[s])) <= 1
            /\ Done(s) =>
                  /\ conns[s].index >= 3 /\ conns[s].handlers[3] = "CORS"
                  /\ conns[s].req.method # "OPTIONS" => ~conns[s].aborted
                  /\ conns[s].written /\ Len(conns[s].body) <= 1

====
